---- MODULE Spec2Model ----
(***************************************************************************)
(* USB_HIDv5 (Source/Core/Core/IOS/USB/USB_HID/HIDv5.cpp): the discrete    *)
(* command dispatcher IOCtl, the vectored dispatcher IOCtlV, transfer      *)
(* submission, endpoint cancellation and device-parameter retrieval, run   *)
(* by two guest-request threads over the shared registry, the endpoint     *)
(* side table and the registry mutex.  The resource manager, the host     *)
(* device and guest memory live in other files of the repository; their   *)
(* parts, the removal of a physical device among them, are modelled at    *)
(* the interface the specification gives them.                            *)
(***************************************************************************)
EXTENDS Integers, Sequences, FiniteSets, TLC

(* ------------------------------ bounds -------------------------------- *)
MaxRequests == 3      \* guest requests issued in one behaviour
MaxVectors == 2       \* most input (and most output) vectors of one request
NumSlots == 2         \* registry slots modelled

Threads == {1, 2}
Slots == 0 .. (NumSlots - 1)
Handles == 0 .. NumSlots          \* NumSlots itself is past the end of the array
HostIds == {1, 2}                 \* the two physical HID devices plugged in
NoDevice == -1                    \* nullptr

(* ---------------------------- reply codes ----------------------------- *)
IPC_SUCCESS == 0
IPC_EINVAL == -4
IPC_ENOENT == -6

GetDefaultReply(value) == [send_reply |-> TRUE, return_value |-> value]
GetNoReply == [send_reply |-> FALSE, return_value |-> 0]

(* ---------------------------- constants ------------------------------- *)
USBV5_VERSION_Wrong == 327681 - 1
USBV5_VERSION == 327681           \* 0x50001
DevParamsSize == 96               \* 0x60
ENDPOINT_INTERRUPT == 3           \* 0b11
ENDPOINT_IN == 128                \* 0x80

(* ---------------------- guest memory primitives ----------------------- *)
Byte(v, i) == (v \div (256 ^ i)) % 256
U32Bytes(v) == << Byte(v, 3), Byte(v, 2), Byte(v, 1), Byte(v, 0) >>
Zeros(n) == [i \in 1 .. n |-> 0]
\* Memory::CopyToEmu / Memset / Write_U32 on one buffer, addressed by offset
CopyToEmu(m, off, bytes) ==
    [a \in DOMAIN m |-> IF a >= off /\ a < off + Len(bytes) THEN bytes[a - off + 1] ELSE m[a]]
Memset(m, off, size) == CopyToEmu(m, off, Zeros(size))
Write_U32(m, v, off) == CopyToEmu(m, off, U32Bytes(v))
Read_U8(word) == Byte(word, 3)          \* first byte of a big-endian 32-bit field
TruncU8(word) == word % 256             \* static_cast<u8>

(* --------------------------- descriptors ------------------------------ *)
Swap16(x) == (x % 256) * 256 + (x \div 256)
Host16(x) == << x % 256, x \div 256 >>  \* a u16 as it lies in host memory

DeviceDescriptorSwap(d) ==
    [d EXCEPT !.bcdUSB = Swap16(@), !.idVendor = Swap16(@),
              !.idProduct = Swap16(@), !.bcdDevice = Swap16(@)]
DeviceDescriptorBytes(d) ==
    << d.bLength, d.bDescriptorType >> \o Host16(d.bcdUSB)
      \o << d.bDeviceClass, d.bDeviceSubClass, d.bDeviceProtocol, d.bMaxPacketSize0 >>
      \o Host16(d.idVendor) \o Host16(d.idProduct) \o Host16(d.bcdDevice)
      \o << d.iManufacturer, d.iProduct, d.iSerialNumber, d.bNumConfigurations >>

ConfigDescriptorSwap(c) == [c EXCEPT !.wTotalLength = Swap16(@)]
ConfigDescriptorBytes(c) ==
    << c.bLength, c.bDescriptorType >> \o Host16(c.wTotalLength)
      \o << c.bNumInterfaces, c.bConfigurationValue, c.iConfiguration,
            c.bmAttributes, c.MaxPower >>

InterfaceDescriptorSwap(i) == i
InterfaceDescriptorBytes(i) ==
    << i.bLength, i.bDescriptorType, i.bInterfaceNumber, i.bAlternateSetting,
       i.bNumEndpoints, i.bInterfaceClass, i.bInterfaceSubClass,
       i.bInterfaceProtocol, i.iInterface >>

EndpointDescriptorSwap(e) == [e EXCEPT !.wMaxPacketSize = Swap16(@)]
EndpointDescriptorBytes(e) ==
    << e.bLength, e.bDescriptorType, e.bEndpointAddress, e.bmAttributes >>
      \o Host16(e.wMaxPacketSize) \o << e.bInterval >>

(* ------------------- the two physical devices plugged ------------------ *)
Endpoint(addr, attr) ==
    [bLength |-> 7, bDescriptorType |-> 5, bEndpointAddress |-> addr,
     bmAttributes |-> attr, wMaxPacketSize |-> 8, bInterval |-> 10]
Interface(num, alt, n) ==
    [bLength |-> 9, bDescriptorType |-> 4, bInterfaceNumber |-> num,
     bAlternateSetting |-> alt, bNumEndpoints |-> n, bInterfaceClass |-> 3,
     bInterfaceSubClass |-> 0, bInterfaceProtocol |-> 0, iInterface |-> 0]

GetDeviceDescriptor(h) ==
    [bLength |-> 18, bDescriptorType |-> 1, bcdUSB |-> 512, bDeviceClass |-> 0,
     bDeviceSubClass |-> 0, bDeviceProtocol |-> 0, bMaxPacketSize0 |-> 8,
     idVendor |-> 1118 + h, idProduct |-> 654, bcdDevice |-> 256,
     iManufacturer |-> 1, iProduct |-> 2, iSerialNumber |-> 0,
     bNumConfigurations |-> 1]
GetConfigurations(h) ==
    << [bLength |-> 9, bDescriptorType |-> 2, wTotalLength |-> 41,
        bNumInterfaces |-> h, bConfigurationValue |-> 1, iConfiguration |-> 0,
        bmAttributes |-> 160, MaxPower |-> 50] >>
\* device 1: interface 0 with alternate settings 0 and 1
\* device 2: interfaces 0 and 1, one alternate setting each
GetInterfaces(h) ==
    IF h = 1 THEN << Interface(0, 0, 2), Interface(0, 1, 2) >>
             ELSE << Interface(0, 0, 1), Interface(1, 0, 3) >>
GetEndpoints(h, num, alt) ==
    IF h = 1
    THEN IF alt = 0 THEN << Endpoint(129, 3), Endpoint(2, 3) >>     \* 0x81 IN, 0x02 OUT
                    ELSE << Endpoint(131, 3), Endpoint(4, 2) >>     \* 0x83 IN, bulk 0x04
    ELSE IF num = 0 THEN << Endpoint(133, 3) >>                     \* 0x85 IN
                    ELSE << Endpoint(130, 3), Endpoint(132, 3), Endpoint(1, 3) >>
                                                  \* 0x82 IN, 0x84 IN, 0x01 OUT

(* ------------------------------- state --------------------------------- *)
VARIABLES
    m_usbv5_devices,           \* the registry: slot -> [in_use, host_id, interface_number]
    m_additional_device_data,  \* the side table: slot -> [interrupt_in_endpoint, interrupt_out_endpoint]
    m_usbv5_devices_mutex,     \* 0 when free, else the thread holding it
    m_devices,                 \* host ids the host-device lookup finds
    attached,                  \* host id -> interfaces Attach has claimed
    transfers,                 \* transfers in flight in the host, each to complete with a reply to the guest
    mem,                       \* thread -> its guest output buffer, 0x60 bytes by offset
    next_id,                   \* id the next request gets
    crashed,                   \* the process died on an invalid access
    last_params,               \* slot -> alternate setting of the last successful parameter query
    pc, request, device, result, trace, it, ep     \* per thread: position and locals

shared == << m_usbv5_devices, m_additional_device_data, m_usbv5_devices_mutex,
             m_devices, attached, transfers, mem, next_id, crashed, last_params >>
locals == << pc, request, device, result, trace, it, ep >>
vars == << shared, locals >>

GuestBuffer(t) == 256 * t
OutOffsets == 0 .. (DevParamsSize - 1)

Poison == [a \in OutOffsets |-> 255]      \* a buffer the guest has not cleared

Req(kind, cmd, handle, word8, bo, bs, nin, nio) ==
    [id |-> 0, kind |-> kind, cmd |-> cmd, handle |-> handle, word8 |-> word8,
     buffer_out |-> bo, buffer_out_size |-> bs, nin |-> nin, nio |-> nio]
NoRequest == Req("none", "none", 0, 0, 0, 0, 0, 0)
NoResult == [send_reply |-> FALSE, return_value |-> 1]

Ev(op, a, b) == [op |-> op, a |-> a, b |-> b]

\* alternate setting n as the guest stores it: one byte at offset 8 of the input buffer
AltWord(n) == n * (256 ^ 3)

\* the discrete requests a guest thread may issue
IOCtlRequests(t) ==
    {Req("ioctl", c, 0, 0, GuestBuffer(t), 4, 0, 0) :
         c \in {"GETVERSION", "ATTACHFINISH", "SETALTERNATE"}}
    \cup {Req("ioctl", "GETDEVPARAMS", h, AltWord(a), GuestBuffer(t), DevParamsSize, 0, 0) :
         h \in Handles, a \in 0 .. 2}
    \cup {Req("ioctl", "GETDEVPARAMS", 0, AltWord(0), b[1], b[2], 0, 0) :
         b \in {<< 0, DevParamsSize >>, << GuestBuffer(t), DevParamsSize - 1 >>,
                << GuestBuffer(t), DevParamsSize + 1 >>}}
    \cup {Req("ioctl", "CANCELENDPOINT", h, w, 0, 0, 0, 0) :
         h \in Handles, w \in {0, 1, 2, 385}}
    \cup {Req("ioctl", "SUSPEND_RESUME", h, 0, 0, 0, 0, 0) : h \in Handles}

\* the vectored requests a guest thread may issue; handle and word8 are what
\* lies at offsets 0 and 8 of the buffer in_vectors[0].address points to
IOCtlVRequests ==
    {Req("ioctlv", c, 0, 0, 0, 0, n[1], n[2]) :
         c \in {"CTRLMSG", "INTRMSG"},
         n \in {v \in (0 .. MaxVectors) \X (0 .. MaxVectors) : v[1] + v[2] # 2}}
    \cup {Req("ioctlv", "INTRMSG", h, w, 0, 0, n, 2 - n) :
         h \in Handles, w \in {0, 256}, n \in 0 .. 2}
    \cup {Req("ioctlv", "CTRLMSG", h, 0, 0, 0, n, 2 - n) : h \in Handles, n \in 0 .. 2}
    \cup {Req("ioctlv", "ISOMSG", 0, 0, 0, 0, 1, 1)}

Init ==
    /\ m_usbv5_devices = [s \in Slots |->
           IF s + 1 \in HostIds
           THEN [in_use |-> TRUE, host_id |-> s + 1, interface_number |-> s]
           ELSE [in_use |-> FALSE, host_id |-> 0, interface_number |-> 0]]
    /\ m_additional_device_data =
           [s \in Slots |-> [interrupt_in_endpoint |-> 0, interrupt_out_endpoint |-> 0]]
    /\ m_usbv5_devices_mutex = 0
    /\ m_devices = HostIds
    /\ attached = [h \in HostIds |-> {}]
    /\ transfers = {}
    /\ mem = [t \in Threads |-> Poison]
    /\ next_id = 1
    /\ crashed = FALSE
    /\ last_params = [s \in Slots |-> -1]
    /\ pc = [t \in Threads |-> "idle"]
    /\ request = [t \in Threads |-> NoRequest]
    /\ device = [t \in Threads |-> NoDevice]
    /\ result = [t \in Threads |-> NoResult]
    /\ trace = [t \in Threads |-> << >>]
    /\ it = [t \in Threads |-> 0]
    /\ ep = [t \in Threads |-> 0]

(* ------------------------ registry and host lookup --------------------- *)
GetUSBV5Device(handle) ==
    IF handle \in Slots /\ m_usbv5_devices[handle].in_use THEN handle ELSE NoDevice
GetDeviceById(host_id) == IF host_id \in m_devices THEN host_id ELSE NoDevice

\* &device - m_usbv5_devices.data()
AdditionalDataIndex_Zero(slot) == 0
AdditionalDataIndex(slot) == slot

\* the dispatcher returns res: the lock guard (if any) has released the mutex
Finish(t, res, events) ==
    /\ pc' = [pc EXCEPT ![t] = "done"]
    /\ result' = [result EXCEPT ![t] = res]
    /\ trace' = [trace EXCEPT ![t] = @ \o events]
    /\ UNCHANGED crashed

\* the handler goes on to its next step
Goto(t, label, events) ==
    /\ pc' = [pc EXCEPT ![t] = label]
    /\ trace' = [trace EXCEPT ![t] = @ \o events]
    /\ UNCHANGED << result, crashed >>

\* the process dies (null dereference, out-of-range read)
Crash(t, events) ==
    /\ crashed' = TRUE
    /\ pc' = [pc EXCEPT ![t] = "crashed"]
    /\ trace' = [trace EXCEPT ![t] = @ \o events]
    /\ UNCHANGED result

(* ------------------------------- IOCtl ---------------------------------- *)
\* the case labels of IOCtl; GETDEVICECHANGE and SHUTDOWN go to the enumeration
\* engine, which is not modelled, and are not issued here
HandledIOCtls == {"GETVERSION", "GETDEVICECHANGE", "SHUTDOWN", "GETDEVPARAMS",
                  "ATTACHFINISH", "SUSPEND_RESUME", "CANCELENDPOINT"}
DeviceIOCtls == {"GETDEVPARAMS", "SUSPEND_RESUME", "CANCELENDPOINT"}

\* the switch of IOCtl: the case a command identifier selects
IOCtlCase_Fallthrough(cmd) == IF cmd \in HandledIOCtls THEN cmd ELSE "GETVERSION"
IOCtlCase(cmd) == IF cmd \in HandledIOCtls THEN cmd ELSE "default"

Begin(t, r) ==
    /\ ~crashed
    /\ pc[t] = "idle"
    /\ next_id <= MaxRequests
    /\ next_id' = next_id + 1
    /\ request' = [request EXCEPT ![t] = [r EXCEPT !.id = next_id]]

IOCtl(t, r) ==
    /\ Begin(t, r)
    /\ r.cmd \notin {"GETDEVICECHANGE", "SHUTDOWN"}
    /\ LET c == IOCtlCase(r.cmd)
           reply == GetDefaultReply(IPC_SUCCESS)
           Done(events) ==
               /\ pc' = [pc EXCEPT ![t] = "done"]
               /\ result' = [result EXCEPT ![t] = reply]
               /\ trace' = [trace EXCEPT ![t] = events]
       IN  IF c = "GETVERSION"
           THEN /\ mem' = [mem EXCEPT ![t] = Write_U32(@, USBV5_VERSION, 0)]
                /\ Done(<< Ev("mem_write", 0, 4) >>)
           ELSE IF c \in DeviceIOCtls
           THEN /\ pc' = [pc EXCEPT ![t] = "HandleDeviceIOCtl"]
                /\ trace' = [trace EXCEPT ![t] = << >>]
                /\ UNCHANGED << mem, result >>
           ELSE /\ Done(<< >>)          \* ATTACHFINISH and the default case
                /\ UNCHANGED mem
    /\ UNCHANGED << m_usbv5_devices, m_additional_device_data, m_usbv5_devices_mutex,
                    m_devices, attached, transfers, crashed, last_params,
                    device, it, ep >>

\* the resource manager's wrapper: under the registry mutex, resolve the
\* handle at the start of the input buffer and run the handler on the device
HandleDeviceIOCtl(t) ==
    /\ ~crashed
    /\ pc[t] = "HandleDeviceIOCtl"
    /\ m_usbv5_devices_mutex = 0
    /\ LET d == GetUSBV5Device(request[t].handle)
           events == << Ev("lock", 0, 0), Ev("GetUSBV5Device", request[t].handle, d) >>
       IN  /\ device' = [device EXCEPT ![t] = d]
           /\ IF d = NoDevice
              THEN /\ Finish(t, GetDefaultReply(IPC_EINVAL), events \o << Ev("unlock", 0, 0) >>)
                   /\ UNCHANGED m_usbv5_devices_mutex
              ELSE /\ Goto(t, request[t].cmd, events)
                   /\ m_usbv5_devices_mutex' = t
    /\ UNCHANGED << m_usbv5_devices, m_additional_device_data, m_devices, attached,
                    transfers, mem, next_id, last_params, request, it, ep >>

(* ---------------------------- GetDeviceInfo ----------------------------- *)
ValidOutBuffer_AtLeast(buffer_out, size) == ~(buffer_out = 0 \/ size < DevParamsSize)
ValidOutBuffer(buffer_out, size) == ~(buffer_out = 0 \/ size # DevParamsSize)

FindInterface_AnyAlt(interfaces, number, alt_setting) ==
    LET hits == {i \in DOMAIN interfaces : interfaces[i].bInterfaceNumber = number}
    IN  IF hits = {} THEN 0 ELSE CHOOSE i \in hits : \A j \in hits : i <= j
\* std::find_if over the interfaces: the index of the first match, 0 for end()
FindInterface(interfaces, number, alt_setting) ==
    LET hits == {i \in DOMAIN interfaces :
                   /\ interfaces[i].bInterfaceNumber = number
                   /\ interfaces[i].bAlternateSetting = alt_setting}
    IN  IF hits = {} THEN 0 ELSE CHOOSE i \in hits : \A j \in hits : i <= j

IsInEndpoint_Always(address) == TRUE
IsInEndpoint(address) == (address \div ENDPOINT_IN) % 2 # 0

\* lines 122-149: the checks, the header and the device, configuration and
\* interface descriptors
GetDeviceInfo(t) ==
    /\ ~crashed
    /\ pc[t] = "GETDEVPARAMS"
    /\ LET r == request[t]
           dev == m_usbv5_devices[device[t]]
           host_device == GetDeviceById(dev.host_id)
           alt_setting == Read_U8(r.word8)
           m1 == Memset(mem[t], 0, r.buffer_out_size)
           m2 == Write_U32(m1, r.handle, 0)
           m3 == Write_U32(m2, 1, 4)
           header == << Ev("GetDeviceById", dev.host_id, host_device),
                        Ev("mem_write", 0, r.buffer_out_size), Ev("mem_write", 0, 4),
                        Ev("mem_write", 4, 4) >>
           m4 == CopyToEmu(m3, 36,
                   DeviceDescriptorBytes(DeviceDescriptorSwap(GetDeviceDescriptor(host_device))))
           m5 == CopyToEmu(m4, 56,
                   ConfigDescriptorBytes(ConfigDescriptorSwap(GetConfigurations(host_device)[1])))
           descs == << Ev("mem_write", 36, 18), Ev("mem_write", 56, 9) >>
           interfaces == GetInterfaces(host_device)
           i == FindInterface(interfaces, dev.interface_number, alt_setting)
           m6 == CopyToEmu(m5, 68, InterfaceDescriptorBytes(InterfaceDescriptorSwap(interfaces[i])))
       IN  IF ~ValidOutBuffer(r.buffer_out, r.buffer_out_size)
           THEN /\ Finish(t, GetDefaultReply(IPC_EINVAL), << Ev("unlock", 0, 0) >>)
                /\ m_usbv5_devices_mutex' = 0
                /\ UNCHANGED << mem, it, ep >>
           ELSE IF host_device = NoDevice
           THEN /\ Crash(t, header)                  \* null host_device at line 132
                /\ mem' = [mem EXCEPT ![t] = m3]
                /\ UNCHANGED << m_usbv5_devices_mutex, it, ep >>
           ELSE IF i = 0
           THEN /\ Finish(t, GetDefaultReply(IPC_EINVAL),
                          header \o descs \o << Ev("unlock", 0, 0) >>)
                /\ mem' = [mem EXCEPT ![t] = m5]
                /\ m_usbv5_devices_mutex' = 0
                /\ UNCHANGED << it, ep >>
           ELSE /\ Goto(t, "GetDeviceInfo_endpoints",
                        header \o descs \o << Ev("mem_write", 68, 9) >>)
                /\ mem' = [mem EXCEPT ![t] = m6]
                /\ it' = [it EXCEPT ![t] = i]
                /\ ep' = [ep EXCEPT ![t] = 1]
                /\ UNCHANGED m_usbv5_devices_mutex
    /\ UNCHANGED << m_usbv5_devices, m_additional_device_data, m_devices, attached,
                    transfers, next_id, last_params, request, device >>

\* the endpoints of the matched interface, as GetEndpoints(0, ...) lists them
MatchedEndpoints(t) ==
    LET h == m_usbv5_devices[device[t]].host_id
        i == GetInterfaces(h)[it[t]]
    IN  GetEndpoints(h, i.bInterfaceNumber, i.bAlternateSetting)

\* lines 152-170: one iteration of the loop over the endpoints
GetDeviceInfo_Endpoint(t) ==
    /\ ~crashed
    /\ pc[t] = "GetDeviceInfo_endpoints"
    /\ ep[t] <= Len(MatchedEndpoints(t))
    /\ LET endpoint == MatchedEndpoints(t)[ep[t]]
           is_in_endpoint == IsInEndpoint(endpoint.bEndpointAddress)
           data == AdditionalDataIndex(device[t])
           offset == IF is_in_endpoint THEN 80 ELSE 88
       IN  IF endpoint.bmAttributes = ENDPOINT_INTERRUPT
           THEN /\ m_additional_device_data' =
                     IF is_in_endpoint
                     THEN [m_additional_device_data EXCEPT
                             ![data].interrupt_in_endpoint = endpoint.bEndpointAddress]
                     ELSE [m_additional_device_data EXCEPT
                             ![data].interrupt_out_endpoint = endpoint.bEndpointAddress]
                /\ mem' = [mem EXCEPT ![t] =
                     CopyToEmu(@, offset, EndpointDescriptorBytes(EndpointDescriptorSwap(endpoint)))]
                /\ Goto(t, pc[t], << Ev("data_write", data, endpoint.bEndpointAddress),
                                     Ev("mem_write", offset, 7) >>)
           ELSE /\ Goto(t, pc[t], << >>)
                /\ UNCHANGED << m_additional_device_data, mem >>
    /\ ep' = [ep EXCEPT ![t] = @ + 1]
    /\ UNCHANGED << m_usbv5_devices, m_usbv5_devices_mutex, m_devices, attached,
                    transfers, next_id, last_params, request, device, it >>

\* line 172: the loop is over
GetDeviceInfo_Return(t) ==
    /\ ~crashed
    /\ pc[t] = "GetDeviceInfo_endpoints"
    /\ ep[t] > Len(MatchedEndpoints(t))
    /\ Finish(t, GetDefaultReply(IPC_SUCCESS), << Ev("unlock", 0, 0) >>)
    /\ m_usbv5_devices_mutex' = 0
    /\ last_params' = [last_params EXCEPT ![device[t]] = Read_U8(request[t].word8)]
    /\ UNCHANGED << m_usbv5_devices, m_additional_device_data, m_devices, attached,
                    transfers, mem, next_id, request, device, it, ep >>

(* ------------------- CancelEndpoint and SuspendResume ------------------- *)
\* the host device's CancelTransfer: every transfer in flight on that endpoint
\* of that device is cancelled and completes later with the cancellation code
CancelTransfer(h, endpoint) ==
    {IF x.host_id = h /\ x.endpoint = endpoint THEN [x EXCEPT !.cancelled = TRUE] ELSE x :
        x \in transfers}
CancelTransferResult(h, endpoint) ==
    IF \E x \in transfers : x.host_id = h /\ x.endpoint = endpoint
    THEN IPC_SUCCESS ELSE IPC_ENOENT

\* lines 116-117: what CancelTransfer returned is dropped
CancelEndpointReply_Propagate(ret) == GetDefaultReply(ret)
CancelEndpointReply(ret) == GetDefaultReply(IPC_SUCCESS)

CancelEndpoint_Clears(t) ==
    /\ ~crashed
    /\ pc[t] = "CANCELENDPOINT"
    /\ LET endpoint == TruncU8(request[t].word8)
           h == m_usbv5_devices[device[t]].host_id
           host_device == GetDeviceById(h)
           lookup == << Ev("GetDeviceById", h, host_device) >>
       IN  IF host_device = NoDevice
           THEN /\ Crash(t, lookup)
                /\ UNCHANGED << transfers, m_usbv5_devices_mutex >>
           ELSE /\ transfers' = CancelTransfer(host_device, endpoint)
                /\ Finish(t, CancelEndpointReply(CancelTransferResult(host_device, endpoint)),
                          lookup \o << Ev("CancelTransfer", host_device, endpoint),
                                       Ev("unlock", 0, 0) >>)
                /\ m_usbv5_devices_mutex' = 0
    /\ m_additional_device_data' = [m_additional_device_data EXCEPT
           ![device[t]] = [interrupt_in_endpoint |-> 0, interrupt_out_endpoint |-> 0]]
    /\ UNCHANGED << m_usbv5_devices, m_devices, attached,
                    mem, next_id, last_params, request, device, it, ep >>

CancelEndpoint(t) ==
    /\ ~crashed
    /\ pc[t] = "CANCELENDPOINT"
    /\ LET endpoint == TruncU8(request[t].word8)
           h == m_usbv5_devices[device[t]].host_id
           host_device == GetDeviceById(h)
           lookup == << Ev("GetDeviceById", h, host_device) >>
       IN  IF host_device = NoDevice
           THEN /\ Crash(t, lookup)
                /\ UNCHANGED << transfers, m_usbv5_devices_mutex >>
           ELSE /\ transfers' = CancelTransfer(host_device, endpoint)
                /\ Finish(t, CancelEndpointReply(CancelTransferResult(host_device, endpoint)),
                          lookup \o << Ev("CancelTransfer", host_device, endpoint),
                                       Ev("unlock", 0, 0) >>)
                /\ m_usbv5_devices_mutex' = 0
    /\ UNCHANGED << m_usbv5_devices, m_additional_device_data, m_devices, attached,
                    mem, next_id, last_params, request, device, it, ep >>

\* the power-state change is the host device's business
SuspendResume(t) ==
    /\ ~crashed
    /\ pc[t] = "SUSPEND_RESUME"
    /\ Finish(t, GetDefaultReply(IPC_SUCCESS), << Ev("unlock", 0, 0) >>)
    /\ m_usbv5_devices_mutex' = 0
    /\ UNCHANGED << m_usbv5_devices, m_additional_device_data, m_devices, attached,
                    transfers, mem, next_id, last_params, request, device, it, ep >>

(* ------------------------------- IOCtlV --------------------------------- *)
ValidVectorCount_AtLeast(in_vectors, io_vectors) == ~(in_vectors + io_vectors < 2)
ValidVectorCount(in_vectors, io_vectors) == ~(in_vectors + io_vectors # 2)

\* lines 57-65: the switch and the vector-count check
IOCtlV(t, r) ==
    /\ Begin(t, r)
    /\ trace' = [trace EXCEPT ![t] = << >>]
    /\ IF r.cmd \in {"CTRLMSG", "INTRMSG"} /\ ValidVectorCount(r.nin, r.nio)
       THEN /\ pc' = [pc EXCEPT ![t] = "IOCtlV_lock"]
            /\ UNCHANGED result
       ELSE /\ pc' = [pc EXCEPT ![t] = "done"]
            /\ result' = [result EXCEPT ![t] = GetDefaultReply(IPC_EINVAL)]
    /\ UNCHANGED << m_usbv5_devices, m_additional_device_data, m_usbv5_devices_mutex,
                    m_devices, attached, transfers, mem, crashed, last_params,
                    device, it, ep >>

\* what reading in_vectors[0] can do: with no input vector the read is out of
\* range, and the process dies or goes on with whatever lies there
ReadInVector0(r) == IF r.nin = 0 THEN {"fault", "garbage"} ELSE {"read"}
\* the read itself: element 0 of a vector of r.nin elements
InVector0(r) == Ev("in_vectors", 0, r.nin)

\* the lock guard of IOCtlV goes out of scope: the value the mutex is left with
LockGuardRelease_Keep(t) == t
LockGuardRelease(t) == 0

\* line 70: the reply when the handle resolves to no registered device
IOCtlV_NoDeviceReply_Success == GetDefaultReply(IPC_SUCCESS)
IOCtlV_NoDeviceReply == GetDefaultReply(IPC_EINVAL)

\* line 72: the interface IOCtlV attaches is the registered device's own
AttachedInterface_Zero(dev) == 0
AttachedInterface(dev) == dev.interface_number

\* the host device's Attach: the interface is claimed; claiming it again changes nothing
Attach(att, host_device, number) == [att EXCEPT ![host_device] = @ \cup {number}]

\* lines 67-72: lock, resolve the device, look up the host device, Attach
IOCtlV_Resolve(t) ==
    /\ ~crashed
    /\ pc[t] = "IOCtlV_lock"
    /\ m_usbv5_devices_mutex = 0
    /\ \E outcome \in ReadInVector0(request[t]) :
        LET d == GetUSBV5Device(request[t].handle)
            h == m_usbv5_devices[d].host_id
            host_device == GetDeviceById(h)
            number == AttachedInterface(m_usbv5_devices[d])
            resolve == << Ev("lock", 0, 0), InVector0(request[t]),
                          Ev("GetUSBV5Device", request[t].handle, d) >>
            lookup == << Ev("GetDeviceById", h, host_device) >>
        IN  IF outcome = "fault"
            THEN /\ Crash(t, << Ev("lock", 0, 0), InVector0(request[t]) >>)
                 /\ m_usbv5_devices_mutex' = t
                 /\ UNCHANGED << attached, device >>
            ELSE IF d = NoDevice
            THEN /\ Finish(t, IOCtlV_NoDeviceReply, resolve \o << Ev("unlock", 0, 0) >>)
                 /\ device' = [device EXCEPT ![t] = d]
                 /\ m_usbv5_devices_mutex' = LockGuardRelease(t)
                 /\ UNCHANGED attached
            ELSE IF host_device = NoDevice
            THEN /\ Crash(t, resolve \o lookup \o << Ev("Attach", NoDevice, number) >>)
                                                     \* line 72: Attach through a null pointer
                 /\ m_usbv5_devices_mutex' = t
                 /\ device' = [device EXCEPT ![t] = d]
                 /\ UNCHANGED attached
            ELSE /\ Goto(t, "HandleTransfer",
                         resolve \o lookup \o << Ev("Attach", host_device, number) >>)
                 /\ m_usbv5_devices_mutex' = t
                 /\ device' = [device EXCEPT ![t] = d]
                 /\ attached' = Attach(attached, host_device, number)
    /\ UNCHANGED << m_usbv5_devices, m_additional_device_data, m_devices, transfers,
                    mem, next_id, last_params, request, it, ep >>

\* lines 96-99: the endpoint an interrupt message goes to
IntrEndpoint_Swapped(data, selector) ==
    IF selector # 0 THEN data.interrupt_in_endpoint ELSE data.interrupt_out_endpoint
IntrEndpoint(data, selector) ==
    IF selector # 0 THEN data.interrupt_out_endpoint ELSE data.interrupt_in_endpoint

\* what the host device's SubmitTransfer may answer
HostSubmitResults == {IPC_SUCCESS, IPC_EINVAL}
\* the host's HandleTransfer: no reply now if the transfer was accepted
HandleTransferReply(ret) ==
    IF ret = IPC_SUCCESS THEN GetNoReply
    ELSE GetDefaultReply(IF ret <= 0 THEN ret ELSE IPC_EINVAL)

\* lines 73-74 and SubmitTransfer (lines 81-106)
IOCtlV_HandleTransfer(t) ==
    /\ ~crashed
    /\ pc[t] = "HandleTransfer"
    /\ LET r == request[t]
           host_device == m_usbv5_devices[device[t]].host_id
           data == AdditionalDataIndex(device[t])
           endpoint == IF r.cmd = "INTRMSG"
                       THEN IntrEndpoint(m_additional_device_data[data], r.word8)
                       ELSE 0
           read == IF r.cmd = "INTRMSG"
                   THEN << InVector0(r), Ev("data_read", data, endpoint) >> ELSE << >>
           Events(ret) == read \o << Ev("SubmitTransfer", endpoint, ret),
                                     Ev("unlock", 0, 0) >>
           Submit ==
               \E ret \in HostSubmitResults :
                  /\ transfers' = IF ret = IPC_SUCCESS
                                  THEN transfers \cup {[id |-> r.id, host_id |-> host_device,
                                          endpoint |-> endpoint, kind |-> r.cmd,
                                          cancelled |-> FALSE,
                                          replied |-> HandleTransferReply(ret).send_reply]}
                                  ELSE transfers
                  /\ Finish(t, HandleTransferReply(ret), Events(ret))
                  /\ m_usbv5_devices_mutex' = LockGuardRelease(t)
       IN  IF r.cmd = "CTRLMSG"
           THEN Submit
           ELSE IF r.cmd = "INTRMSG"
           THEN \E outcome \in ReadInVector0(r) :        \* in_vectors[0].address + 8
                  IF outcome = "fault"
                  THEN /\ Crash(t, << InVector0(r) >>)
                       /\ UNCHANGED << transfers, m_usbv5_devices_mutex >>
                  ELSE Submit
           ELSE /\ Finish(t, HandleTransferReply(IPC_EINVAL), << Ev("unlock", 0, 0) >>)
                /\ m_usbv5_devices_mutex' = LockGuardRelease(t)
                /\ UNCHANGED transfers
    /\ UNCHANGED << m_usbv5_devices, m_additional_device_data, m_devices, attached,
                    mem, next_id, last_params, request, device, it, ep >>

(* ------------------------- the host and the guest ----------------------- *)
\* the host finishes a transfer and its completion path replies to the guest
TransferComplete(x) ==
    /\ ~crashed
    /\ x \in transfers
    /\ transfers' = transfers \ {x}
    /\ UNCHANGED << m_usbv5_devices, m_additional_device_data, m_usbv5_devices_mutex,
                    m_devices, attached, mem, next_id, crashed, last_params, locals >>

\* the dispatcher has returned; the guest reads the output, reuses the buffer
\* for other data and the thread takes the next request
Return(t) ==
    /\ ~crashed
    /\ pc[t] = "done"
    /\ pc' = [pc EXCEPT ![t] = "idle"]
    /\ request' = [request EXCEPT ![t] = NoRequest]
    /\ device' = [device EXCEPT ![t] = NoDevice]
    /\ result' = [result EXCEPT ![t] = NoResult]
    /\ trace' = [trace EXCEPT ![t] = << >>]
    /\ it' = [it EXCEPT ![t] = 0]
    /\ ep' = [ep EXCEPT ![t] = 0]
    /\ mem' = [mem EXCEPT ![t] = Poison]
    /\ UNCHANGED << m_usbv5_devices, m_additional_device_data, m_usbv5_devices_mutex,
                    m_devices, attached, transfers, next_id, crashed, last_params >>

\* what two guest threads running at the same time issue: parameter queries,
\* interrupt transfers and cancellations on the registered slots
ConcurrentIOCtls(t) ==
    {r \in IOCtlRequests(t) :
        \/ /\ r.cmd = "GETDEVPARAMS"
           /\ r.handle \in Slots
           /\ r.buffer_out # 0 /\ r.buffer_out_size = DevParamsSize
           /\ Read_U8(r.word8) \in {0, 1}
        \/ r.cmd = "CANCELENDPOINT" /\ r.handle = 0 /\ r.word8 = 1
        \/ r.cmd = "SUSPEND_RESUME" /\ r.handle = 0}
ConcurrentIOCtlVs ==
    {r \in IOCtlVRequests : r.cmd = "INTRMSG" /\ r.nin = 1 /\ r.nio = 1 /\ r.handle = 0}

\* the steps of the guest threads T, issuing every kind of request or, when
\* concurrent, the requests above
Step(T, concurrent) ==
    \/ \E t \in T :
         \E r \in IF concurrent THEN ConcurrentIOCtls(t) ELSE IOCtlRequests(t) : IOCtl(t, r)
    \/ \E t \in T : HandleDeviceIOCtl(t)
    \/ \E t \in T : GetDeviceInfo(t)
    \/ \E t \in T : GetDeviceInfo_Endpoint(t)
    \/ \E t \in T : GetDeviceInfo_Return(t)
    \/ \E t \in T : CancelEndpoint(t)
    \/ \E t \in T : SuspendResume(t)
    \/ \E t \in T :
         \E r \in IF concurrent THEN ConcurrentIOCtlVs ELSE IOCtlVRequests : IOCtlV(t, r)
    \/ \E t \in T : IOCtlV_Resolve(t)
    \/ \E t \in T : IOCtlV_HandleTransfer(t)
    \/ \E x \in transfers : TransferComplete(x)
    \/ \E t \in T : Return(t)

\* the host loses a physical device: the lookup by host id finds it no more
DeviceRemoved(h) ==
    /\ ~crashed
    /\ h \in m_devices
    /\ m_devices' = m_devices \ {h}
    /\ UNCHANGED << m_usbv5_devices, m_additional_device_data, m_usbv5_devices_mutex,
                    attached, transfers, mem, next_id, crashed, last_params, locals >>

\* the enumeration engine hears of the removal and, under the registry lock,
\* frees the slots bound to the device
OnDeviceChange(h) ==
    /\ ~crashed
    /\ h \notin m_devices
    /\ m_usbv5_devices_mutex = 0
    /\ \E s \in Slots : m_usbv5_devices[s].in_use /\ m_usbv5_devices[s].host_id = h
    /\ m_usbv5_devices' = [s \in Slots |->
           IF m_usbv5_devices[s].host_id = h
           THEN [m_usbv5_devices[s] EXCEPT !.in_use = FALSE]
           ELSE m_usbv5_devices[s]]
    /\ UNCHANGED << m_additional_device_data, m_usbv5_devices_mutex, m_devices,
                    attached, transfers, mem, next_id, crashed, last_params, locals >>

\* one guest thread issues every kind of request, one after the other
Next == Step({1}, FALSE)
Spec == Init /\ [][Next]_vars

\* two guest threads issue requests at the same time
NextConcurrent == Step(Threads, TRUE)
SpecConcurrent == Init /\ [][NextConcurrent]_vars

\* one guest thread issues requests while devices are unplugged
NextDetach ==
    \/ Step({1}, TRUE)
    \/ \E h \in HostIds : DeviceRemoved(h)
    \/ \E h \in HostIds : OnDeviceChange(h)
SpecDetach == Init /\ [][NextDetach]_vars

(* ============================== properties ============================== *)
Events(t) == {trace[t][i] : i \in DOMAIN trace[t]}
Done(t, cmd) == pc[t] = "done" /\ request[t].cmd = cmd
Resolved(t) == device[t] # NoDevice
EINVAL == GetDefaultReply(IPC_EINVAL)
SUCCESS == GetDefaultReply(IPC_SUCCESS)

\* the addresses of the interrupt endpoints of an alternate setting of a slot's interface
InterruptAddresses(slot, alt) ==
    LET d == m_usbv5_devices[slot]
        eps == GetEndpoints(d.host_id, d.interface_number, alt)
    IN  {eps[i].bEndpointAddress : i \in {j \in DOMAIN eps : eps[j].bmAttributes = 3}}
\* the matched interface has interrupt-IN 0x81 and interrupt-OUT 0x02
Exposes81And02(slot, alt) == InterruptAddresses(slot, alt) = {129, 2}

\* C1: after a successful parameter query that matched an interface with
\* interrupt-IN 0x81 and interrupt-OUT 0x02, the endpoint descriptor at offset
\* 80 carries address 0x81 and the one at offset 88 carries 0x02, and every
\* later interrupt message on that slot is handed to the host with endpoint
\* 0x81 when the selector at offset 8 of the first input vector is 0 and with
\* 0x02 when it is not.
C1_QueryThenRoute ==
    \A t \in Threads :
        /\ ( /\ Done(t, "GETDEVPARAMS")
             /\ result[t] = SUCCESS
             /\ Exposes81And02(device[t], Read_U8(request[t].word8)) )
           => /\ mem[t][80] = 7 /\ mem[t][81] = 5 /\ mem[t][82] = 129
              /\ mem[t][88] = 7 /\ mem[t][89] = 5 /\ mem[t][90] = 2
        /\ ( /\ request[t].cmd = "INTRMSG"
             /\ request[t].nin >= 1
             /\ Resolved(t)
             /\ last_params[device[t]] >= 0
             /\ Exposes81And02(device[t], last_params[device[t]]) )
           => \A e \in Events(t) :
                 e.op = "SubmitTransfer" => e.a = IF request[t].word8 = 0 THEN 129 ELSE 2
C1_Witness ==
    \E t \in Threads :
        /\ Done(t, "INTRMSG")
        /\ request[t].word8 = 256
        /\ request[t].nin = 1
        /\ Resolved(t)
        /\ last_params[device[t]] = 0
        /\ Exposes81And02(device[t], 0)
        /\ \E e \in Events(t) : e.op = "SubmitTransfer" /\ e.a = 2

\* the request's alternate setting matches no interface of the slot's interface number
NoMatchingInterface(t) ==
    LET d == m_usbv5_devices[device[t]]
    IN  FindInterface(GetInterfaces(d.host_id), d.interface_number,
                      Read_U8(request[t].word8)) = 0

\* C2: a parameter query with a valid handle and a 0x60-byte output buffer
\* whose alternate setting matches no interface returns InvalidArgument and
\* leaves the whole output buffer zero.
C2_MismatchLeavesZero ==
    \A t \in Threads :
        ( /\ Done(t, "GETDEVPARAMS")
          /\ Resolved(t)
          /\ ValidOutBuffer(request[t].buffer_out, request[t].buffer_out_size)
          /\ NoMatchingInterface(t) )
        => /\ result[t] = EINVAL
           /\ \A a \in OutOffsets : mem[t][a] = 0

\* C3: a control or interrupt message whose input and output vectors do not
\* number 2 in all is answered InvalidArgument at once: no lock, no device
\* resolved, no host device attached or submitted to, no side-table access.
C3_BadVectorCount ==
    \A t \in Threads :
        ( /\ request[t].kind = "ioctlv"
          /\ request[t].cmd \in {"CTRLMSG", "INTRMSG"}
          /\ request[t].nin + request[t].nio # 2 )
        => /\ pc[t] = "done"
           /\ result[t] = EINVAL
           /\ trace[t] = << >>
           /\ device[t] = NoDevice
           /\ m_usbv5_devices_mutex # t
C3_Witness ==
    \E t \in Threads :
        /\ Done(t, "INTRMSG")
        /\ request[t].nin = 2 /\ request[t].nio = 1
        /\ result[t] = EINVAL

\* C4: a parameter query with output address 0 or an output size other than
\* 0x60 returns InvalidArgument and writes neither guest memory nor the side table.
C4_BadOutBuffer ==
    \A t \in Threads :
        ( /\ request[t].cmd = "GETDEVPARAMS"
          /\ (request[t].buffer_out = 0 \/ request[t].buffer_out_size # 96) )
        => /\ \A e \in Events(t) : e.op \notin {"mem_write", "data_write"}
           /\ mem[t] = Poison
           /\ pc[t] = "done" => result[t] = EINVAL
C4_Witness ==
    \E t \in Threads :
        /\ Done(t, "GETDEVPARAMS")
        /\ Resolved(t)
        /\ request[t].buffer_out # 0
        /\ request[t].buffer_out_size = 97
        /\ result[t] = EINVAL

\* the address a query discovers for one direction: that of the last interrupt
\* endpoint of that direction among eps, 0 when there is none
Discovered(eps, in) ==
    LET hits == {i \in DOMAIN eps :
                   /\ eps[i].bmAttributes = 3
                   /\ (eps[i].bEndpointAddress >= 128) = in}
    IN  IF hits = {} THEN 0
        ELSE eps[CHOOSE i \in hits : \A j \in hits : j <= i].bEndpointAddress

\* the thread's query succeeded and the side-table entry e holds what it discovered
HoldsOwnDiscovery(t, e) ==
    LET eps == MatchedEndpoints(t)
    IN  /\ Discovered(eps, TRUE) # 0 => e.interrupt_in_endpoint = Discovered(eps, TRUE)
        /\ Discovered(eps, FALSE) # 0 => e.interrupt_out_endpoint = Discovered(eps, FALSE)

\* C5: when two threads run parameter queries for two different slots, each
\* query touches only its own slot's side-table entry, and once both have
\* finished each entry holds the interrupt endpoint addresses its own query
\* discovered (a query being its slot's, unless a query for another alternate
\* setting of the same slot succeeded after it).
C5_QueriesKeepApart ==
    /\ \A t \in Threads :
          (request[t].cmd = "GETDEVPARAMS" /\ Resolved(t))
          => \A e \in Events(t) : e.op \in {"data_read", "data_write"} => e.a = device[t]
    /\ \A t, u \in Threads :
          ( /\ Done(t, "GETDEVPARAMS") /\ result[t] = SUCCESS
            /\ Done(u, "GETDEVPARAMS") /\ result[u] = SUCCESS
            /\ device[t] # device[u]
            /\ last_params[device[t]] = Read_U8(request[t].word8) )
          => HoldsOwnDiscovery(t, m_additional_device_data[device[t]])
C5_Witness ==
    /\ Done(1, "GETDEVPARAMS") /\ result[1] = SUCCESS /\ device[1] = 1
    /\ Done(2, "GETDEVPARAMS") /\ result[2] = SUCCESS /\ device[2] = 0
    /\ m_additional_device_data[1].interrupt_in_endpoint = 132
    /\ m_additional_device_data[0].interrupt_in_endpoint = 131

\* the slot's device has no transfer in flight
NothingInFlight(t) ==
    \A x \in transfers : x.host_id # m_usbv5_devices[device[t]].host_id

RecognizedIOCtls == {"GETVERSION", "GETDEVICECHANGE", "SHUTDOWN", "GETDEVPARAMS",
                     "ATTACHFINISH", "SUSPEND_RESUME", "CANCELENDPOINT"}
\* thread t takes up a discrete request in this step
Takes(t) == pc[t] = "idle" /\ pc'[t] # "idle" /\ request'[t].kind = "ioctl"

\* C7: a discrete command outside the recognized set is answered with success
\* in the step that takes it, and that step writes no guest memory and leaves
\* the registry, the side table, the mutex and the host's transfers as they were.
C7_UnknownIsNoOp ==
    [][\A t \in Threads :
          (Takes(t) /\ request'[t].cmd \notin RecognizedIOCtls)
          => /\ pc'[t] = "done"
             /\ result'[t] = SUCCESS
             /\ trace'[t] = << >>
             /\ UNCHANGED << mem, m_usbv5_devices, m_additional_device_data,
                             m_usbv5_devices_mutex, m_devices, attached, transfers >>]_vars
C7_Witness ==
    \E t \in Threads :
        /\ pc[t] = "done"
        /\ request[t].kind = "ioctl"
        /\ request[t].cmd \notin RecognizedIOCtls
        /\ result[t] = SUCCESS
        /\ mem[t] = Poison

\* C8: GET_VERSION writes 0x50001 (big-endian, 4 bytes) at the start of the
\* output buffer and returns success, whatever happened before, and changes
\* nothing else.
C8_GetVersion ==
    [][\A t \in Threads :
          (Takes(t) /\ request'[t].cmd = "GETVERSION")
          => /\ pc'[t] = "done"
             /\ result'[t] = SUCCESS
             /\ mem'[t][0] = 0 /\ mem'[t][1] = 5 /\ mem'[t][2] = 0 /\ mem'[t][3] = 1
             /\ \A a \in OutOffsets : a >= 4 => mem'[t][a] = mem[t][a]
             /\ \A u \in Threads : u # t => mem'[u] = mem[u]
             /\ UNCHANGED << m_usbv5_devices, m_additional_device_data,
                             m_usbv5_devices_mutex, m_devices, attached, transfers,
                             last_params >>]_vars
C8_Witness ==
    \E t \in Threads :
        /\ Done(t, "GETVERSION")
        /\ result[t] = SUCCESS
        /\ mem[t][1] = 5 /\ mem[t][3] = 1 /\ mem[t][4] = 255
        /\ m_additional_device_data[0].interrupt_in_endpoint = 129
        /\ transfers # {}

\* C9: every control or interrupt message ends in exactly one of two ways: an
\* immediate negative reply, after which no completion comes, or no immediate
\* reply and a transfer the host accepted, whose completion brings the result.
\* Never both, and never neither.
C9_ExactlyOneOutcome ==
    /\ \A t \in Threads :
          (request[t].kind = "ioctlv" /\ request[t].cmd \in {"CTRLMSG", "INTRMSG"})
          => /\ pc[t] # "crashed"
             /\ pc[t] = "done" =>
                  IF result[t].send_reply
                  THEN /\ result[t].return_value < 0
                       /\ \A x \in transfers : x.id # request[t].id
                  ELSE \E e \in Events(t) : e.op = "SubmitTransfer" /\ e.b = IPC_SUCCESS
    /\ \A x \in transfers : ~x.replied

\* the physical endpoint a cancellation selector stands for on a slot
SelectedEndpoint(slot, selector) ==
    IF selector = 1 THEN m_additional_device_data[slot].interrupt_in_endpoint
    ELSE IF selector = 2 THEN m_additional_device_data[slot].interrupt_out_endpoint
    ELSE 0

\* C10: CANCEL_ENDPOINT tells the host to cancel on the physical endpoint the
\* selector stands for (1: the slot's interrupt-IN address, 2: its
\* interrupt-OUT address, 0: endpoint 0), so with IN resolved to 0x81 and an
\* interrupt-IN transfer in flight on 0x81 a cancel with selector 1 cancels it.
C10_CancelUsesSideTable ==
    \A t \in Threads :
        ( /\ Done(t, "CANCELENDPOINT")
          /\ Resolved(t)
          /\ request[t].word8 \in {0, 1, 2}
          /\ m_additional_device_data[device[t]].interrupt_in_endpoint = 129 )
        => /\ \A e \in Events(t) :
                e.op = "CancelTransfer"
                => e.b = SelectedEndpoint(device[t], request[t].word8)
           /\ request[t].word8 = 1
              => \A x \in transfers :
                    ( /\ x.host_id = m_usbv5_devices[device[t]].host_id
                      /\ x.kind = "INTRMSG"
                      /\ x.endpoint = 129 )
                    => x.cancelled

\* the interrupt endpoint addresses of one direction that a successful query
\* on the slot can discover, over the alternate settings of its interface
DiscoverableAddresses(slot, in) ==
    LET d == m_usbv5_devices[slot]
        ifs == GetInterfaces(d.host_id)
        mine == {i \in DOMAIN ifs : ifs[i].bInterfaceNumber = d.interface_number}
    IN  {Discovered(GetEndpoints(d.host_id, d.interface_number, ifs[i].bAlternateSetting), in) :
            i \in mine} \ {0}

\* C11: every interrupt message handed to the host carries an endpoint address
\* that a successful parameter query on the same slot discovered for the
\* selected direction: never the unresolved address 0, neither before any
\* query on the slot nor when the direction has no interrupt endpoint.
C11_NoUnresolvedRouting ==
    \A t \in Threads :
        (request[t].cmd = "INTRMSG" /\ request[t].nin >= 1 /\ Resolved(t))
        => \A e \in Events(t) :
              e.op = "SubmitTransfer"
              => /\ last_params[device[t]] >= 0
                 /\ e.a # 0
                 /\ e.a \in DiscoverableAddresses(device[t], request[t].word8 = 0)

\* C12: the side table changes only in a step of device-parameter retrieval
\* (one iteration of its endpoint loop, by a thread serving GET_DEVICE_PARAMETERS);
\* GET_VERSION, ATTACH_FINISH, CANCEL_ENDPOINT, unrecognized commands and the
\* submission of control and interrupt transfers leave every entry as it was.
C12_OnlyQueryMutates ==
    [][ /\ m_additional_device_data' # m_additional_device_data
           => \E t \in Threads :
                 /\ request[t].cmd = "GETDEVPARAMS"
                 /\ pc[t] = "GetDeviceInfo_endpoints"
                 /\ ep'[t] = ep[t] + 1
        /\ \A t \in Threads :
              (pc'[t] # pc[t] /\ request'[t].cmd \notin {"GETDEVPARAMS", "none"})
              => UNCHANGED m_additional_device_data ]_vars
C12_Witness ==
    \E t \in Threads :
        /\ Done(t, "CANCELENDPOINT")
        /\ Resolved(t)
        /\ m_additional_device_data[device[t]].interrupt_in_endpoint = 129
        /\ m_additional_device_data[device[t]].interrupt_out_endpoint = 2
        /\ \E x \in transfers : x.kind = "INTRMSG" /\ x.endpoint = 2

\* C13: for every control or interrupt message that passes the vector-count
\* check (input count + output count = 2), the first input vector exists
\* whenever the dispatcher reads it: each read of in_vectors[0], for the handle
\* in IOCtlV and for the selector in SubmitTransfer, is within the vector, for
\* every split of the two vectors, 0 input and 2 output included.
C13_NoOutOfRangeRead ==
    \A t \in Threads :
        ( /\ request[t].kind = "ioctlv"
          /\ request[t].cmd \in {"CTRLMSG", "INTRMSG"}
          /\ request[t].nin + request[t].nio = 2 )
        => /\ pc[t] # "crashed"
           /\ \A e \in Events(t) : e.op = "in_vectors" => e.a < e.b

\* in the request thread t is serving, the transfer handed over at position k
\* of its history comes after the lock, the resolution of the registered
\* device and the Attach of that device's interface on its host device, in
\* this order, and before the unlock
OrderedBefore(t, k) ==
    LET tr == trace[t]
        dev == m_usbv5_devices[device[t]]
    IN  \E l, i, j \in 1 .. (k - 1) :
           /\ l < i /\ i < j
           /\ tr[l].op = "lock"
           /\ tr[i].op = "GetUSBV5Device" /\ tr[i].b = device[t]
           /\ tr[j].op = "Attach" /\ tr[j].a = dev.host_id /\ tr[j].b = dev.interface_number
           /\ \A u \in 1 .. k : tr[u].op # "unlock"
SubmitsInOrder ==
    \A t \in Threads :
        /\ \A k \in DOMAIN trace[t] :
              trace[t][k].op = "SubmitTransfer" => Resolved(t) /\ OrderedBefore(t, k)
        /\ pc[t] = "HandleTransfer" => m_usbv5_devices_mutex = t

\* C14: every transfer IOCtlV hands to the host device comes, within the same
\* request and with the registry lock still held, after the resolution of the
\* registered device and then an Attach of that device's interface_number on
\* the same host device; every request attaches again, and an Attach of an
\* interface that is attached already changes nothing.
C14_ResolveAttachSubmit ==
    [][ /\ SubmitsInOrder'
        /\ \A t \in Threads :
              (pc[t] = "IOCtlV_lock" /\ pc'[t] = "HandleTransfer")
              => LET dev == m_usbv5_devices[device'[t]]
                 IN  /\ m_usbv5_devices_mutex' = t
                     /\ attached' = [attached EXCEPT ![dev.host_id] = @ \cup {dev.interface_number}]
                     /\ dev.interface_number \in attached[dev.host_id] => attached' = attached
        /\ \A x \in {y \in transfers' : \A z \in transfers : z.id # y.id} :
              \E t \in Threads : pc[t] = "HandleTransfer" /\ m_usbv5_devices_mutex = t
                                  /\ x.host_id = m_usbv5_devices[device[t]].host_id ]_vars
C14_Witness ==
    \E t \in Threads :
        /\ Done(t, "INTRMSG")
        /\ device[t] = 1
        /\ \E e \in Events(t) : e.op = "Attach" /\ e.a = 2 /\ e.b = 1
        /\ \E e \in Events(t) : e.op = "SubmitTransfer" /\ e.b = IPC_SUCCESS
        /\ \E x \in transfers : x.id < request[t].id /\ x.host_id = 2
        /\ attached[2] = {1}

\* the handle names no registered device: past the registry or a slot not in use
UnresolvedHandle(r) == r.handle \notin Slots \/ ~m_usbv5_devices[r.handle].in_use

\* C15: a control or interrupt message with exactly 2 vectors whose first input
\* vector holds a handle that resolves to no registered device returns
\* InvalidArgument: no host device is looked up or attached, no transfer is
\* submitted, the side table is neither read nor written, and the registry
\* lock is free again when the reply is returned.
C15_UnresolvedHandle ==
    \A t \in Threads :
        ( /\ request[t].kind = "ioctlv"
          /\ request[t].cmd \in {"CTRLMSG", "INTRMSG"}
          /\ request[t].nin + request[t].nio = 2
          /\ request[t].nin >= 1
          /\ UnresolvedHandle(request[t]) )
        => /\ pc[t] \in {"IOCtlV_lock", "done"}
           /\ device[t] = NoDevice
           /\ \A e \in Events(t) :
                 e.op \notin {"GetDeviceById", "Attach", "SubmitTransfer",
                              "data_read", "data_write"}
           /\ \A x \in transfers : x.id # request[t].id
           /\ pc[t] = "done" => /\ result[t] = EINVAL
                                /\ m_usbv5_devices_mutex = 0
                                /\ trace[t][Len(trace[t])].op = "unlock"
C15_Witness ==
    \E t \in Threads :
        /\ Done(t, "INTRMSG")
        /\ request[t].nin = 1 /\ request[t].nio = 1
        /\ request[t].handle = NumSlots
        /\ \E e \in Events(t) : e.op = "GetUSBV5Device" /\ e.b = NoDevice
        /\ result[t] = EINVAL
        /\ m_usbv5_devices_mutex = 0
        /\ m_additional_device_data[0].interrupt_in_endpoint = 129

\* the positions of a thread inside a handler that runs under the registry lock
UnderLock == {"GETDEVPARAMS", "GetDeviceInfo_endpoints", "CANCELENDPOINT",
              "SUSPEND_RESUME", "HandleTransfer"}
WaitsForLock(t) == pc[t] \in {"HandleDeviceIOCtl", "IOCtlV_lock"}
\* the lock is held only by a thread inside a handler, never by one that has
\* returned (whatever the reply) or whose transfer is in flight
LockOnlyInsideHandler ==
    /\ \A t \in Threads : m_usbv5_devices_mutex = t <=> pc[t] \in UnderLock
    /\ \A t \in Threads :
          (request[t].kind = "ioctlv" /\ pc[t] = "done")
          => /\ m_usbv5_devices_mutex # t
             /\ trace[t] # << >> => trace[t][Len(trace[t])].op = "unlock"
    /\ \A x \in transfers : \A t \in Threads :
          request[t].id = x.id => pc[t] = "done" /\ m_usbv5_devices_mutex # t

\* a thread that waits for the lock can take it when it is free; when it is
\* not, another thread holds it and that thread is inside a handler
CanProceed(t) ==
    IF m_usbv5_devices_mutex = 0
    THEN ENABLED (HandleDeviceIOCtl(t) \/ IOCtlV_Resolve(t))
    ELSE \E u \in Threads \ {t} : m_usbv5_devices_mutex = u /\ pc[u] \in UnderLock

Field(e, in) == IF in THEN e.interrupt_in_endpoint ELSE e.interrupt_out_endpoint
\* the output-buffer region of one direction's endpoint descriptor
RegionStart(in) == IF in THEN 80 ELSE 88
Region(in) == RegionStart(in) .. (RegionStart(in) + 7)

\* thread t's query has succeeded: each direction's field holds the address of
\* the last interrupt endpoint of that direction, whose descriptor lies in the
\* direction's region, and a direction without one has a zero region
QueryOutcome(t) ==
    (Done(t, "GETDEVPARAMS") /\ result[t] = SUCCESS)
    => \A in \in BOOLEAN :
          LET found == Discovered(MatchedEndpoints(t), in)
          IN  IF found # 0
              THEN /\ Field(m_additional_device_data[device[t]], in) = found
                   /\ mem[t][RegionStart(in)] = 7
                   /\ mem[t][RegionStart(in) + 2] = found
              ELSE \A a \in Region(in) : mem[t][a] = 0

\* C17: a successful parameter query overwrites a slot's side-table field only
\* for a direction in which the matched interface has an interrupt endpoint,
\* the last such endpoint enumerated winning; the field of a direction with no
\* interrupt endpoint is left as an earlier query set it, while that
\* direction's region of the output buffer (offset 80 for IN, 88 for OUT) is
\* zero.  So after two successful queries with different alternate settings an
\* interrupt transfer can go to an address the latest query did not report.
C17_StaleEndpointKept ==
    [][ /\ \A t \in Threads : QueryOutcome(t)'
        /\ \A s \in Slots : \A in \in BOOLEAN :
              Field(m_additional_device_data'[s], in) # Field(m_additional_device_data[s], in)
              => \E t \in Threads :
                    /\ pc[t] = "GetDeviceInfo_endpoints"
                    /\ device[t] = s
                    /\ ep[t] <= Len(MatchedEndpoints(t))
                    /\ LET endpoint == MatchedEndpoints(t)[ep[t]]
                       IN  /\ endpoint.bmAttributes = 3
                           /\ (endpoint.bEndpointAddress >= 128) = in
                           /\ Field(m_additional_device_data'[s], in) = endpoint.bEndpointAddress ]_vars
C17_Witness ==
    \E t \in Threads :
        /\ Done(t, "INTRMSG")
        /\ request[t].word8 # 0
        /\ device[t] = 0
        /\ last_params[0] = 1
        /\ 2 \notin InterruptAddresses(0, 1)
        /\ m_additional_device_data[0].interrupt_in_endpoint = 131
        /\ \E e \in Events(t) : e.op = "SubmitTransfer" /\ e.a = 2

\* the parameter query thread t is serving is one that fails: its output
\* address is zero, its output size is not 0x60, or the device has no interface
\* with the bound interface number and the alternate setting asked for
FailingQuery(t) ==
    /\ request[t].cmd = "GETDEVPARAMS"
    /\ Resolved(t)
    /\ \/ request[t].buffer_out = 0
       \/ request[t].buffer_out_size # 96
       \/ LET d == m_usbv5_devices[device[t]]
              ifs == GetInterfaces(d.host_id)
          IN  ~\E i \in DOMAIN ifs :
                  /\ ifs[i].bInterfaceNumber = d.interface_number
                  /\ ifs[i].bAlternateSetting = request[t].word8 \div (256 ^ 3)

\* C18: a parameter query that returns InvalidArgument (output address zero,
\* output size not 0x60, or no interface matching the bound interface number
\* and the alternate setting) leaves every slot's side-table entry as it was,
\* so interrupt transfers are routed afterwards as they were before.
C18_FailedQueryKeepsTable ==
    [][ \A t \in Threads :
          /\ (FailingQuery(t) /\ pc'[t] # pc[t]) => UNCHANGED m_additional_device_data
          /\ (FailingQuery(t) /\ pc'[t] = "done")
             => /\ result'[t] = EINVAL
                /\ \A e \in Events(t)' : e.op # "data_write" ]_vars
C18_Witness ==
    \E t \in Threads :
        /\ Done(t, "GETDEVPARAMS")
        /\ Resolved(t)
        /\ request[t].buffer_out # 0 /\ request[t].buffer_out_size = 96
        /\ request[t].word8 = AltWord(2)
        /\ result[t] = EINVAL
        /\ m_additional_device_data[device[t]].interrupt_in_endpoint = 129
        /\ m_additional_device_data[device[t]].interrupt_out_endpoint = 2

\* C19: when the registered device resolves but the lookup by its host_id
\* finds no host device (the physical device was detached after enumeration),
\* IOCtlV ends the request with an error reply, without invoking Attach and
\* without submitting a transfer.
C19_NullHostDeviceIsError ==
    \A t \in Threads :
        ( /\ request[t].kind = "ioctlv"
          /\ request[t].cmd \in {"CTRLMSG", "INTRMSG"}
          /\ request[t].nin >= 1
          /\ Resolved(t)
          /\ \E e \in Events(t) : e.op = "GetDeviceById" /\ e.b = NoDevice )
        => /\ pc[t] = "done"
           /\ result[t].send_reply /\ result[t].return_value < 0
           /\ \A e \in Events(t) : e.op \notin {"Attach", "SubmitTransfer"}

====
